---- MODULE Spec2Model ----
(***************************************************************************)
(* Pool-occupancy monitor: the extraction chain of src/scraper.py and the  *)
(* ingestion tick, time gate and interval job of src/app.py.               *)
(*                                                                         *)
(* Time is the wall clock in seconds.  The local time of day is the clock  *)
(* modulo one day; the stored (UTC) timestamps differ from the local clock *)
(* by a constant offset, which cancels in every comparison the code makes, *)
(* so the model uses one clock for both.                                   *)
(*                                                                         *)
(* A page is a sequence of items laid out in two containers.  The page     *)
(* text is a sequence of tokens: the anchor phrase in capitals "A", the    *)
(* anchor phrase in small letters with its words on separate lines "a", a  *)
(* text run "K" holding one of the keywords AKTUALNA / BASENIE but not the *)
(* whole phrase, a slash "S", and a maximal digit run "N" with its value.  *)
(* Neighbouring tokens are separated by optional whitespace only.          *)
(***************************************************************************)
EXTENDS Integers, Sequences, FiniteSets, TLC

\* ------------------------------------------------------------------ bounds
MaxItems == 3
MaxElapsedMinutes == 10
MaxTicks == 4

\* the configured interval values explored run from -MaxEnvInt to MaxEnvInt
MaxEnvInt == 30

\* ------------------------------------------------------- extraction results
NotFound == [found |-> FALSE, c |-> 0, m |-> 0]

Found(c, m) == [found |-> TRUE, c |-> c, m |-> m]

\* ------------------------------------------------------------------- pages
Tok(k, n) == [k |-> k, n |-> n]

PairMenu == { <<4, 7>>, <<12, 100>>, <<1, 50>>, <<2, 200>>, <<3, 49>>, <<5, 201>> }

BoldMenu == { <<4, 7>>, <<12, 100>>, <<3, 49>> }

ItemKinds ==
    { [kind |-> k, c |-> 0, m |-> 0, bold |-> FALSE] : k \in {"A", "a", "K", "S"} }
    \cup { [kind |-> "N", c |-> 9, m |-> 0, bold |-> FALSE] }
    \cup { [kind |-> "P", c |-> p[1], m |-> p[2], bold |-> FALSE] : p \in PairMenu }
    \cup { [kind |-> "P", c |-> p[1], m |-> p[2], bold |-> TRUE] : p \in BoldMenu }

ItemText(it) ==
    CASE it.kind = "P" -> << Tok("N", it.c), Tok("S", 0), Tok("N", it.m) >>
      [] it.kind = "N" -> << Tok("N", it.c) >>
      [] OTHER         -> << Tok(it.kind, 0) >>

RECURSIVE TextOf(_)
TextOf(items) ==
    IF items = << >> THEN << >>
    ELSE ItemText(Head(items)) \o TextOf(Tail(items))

\* soup.get_text(): the text of the whole document, tags stripped
PageText(pg) == TextOf(pg.items)

\* the container (parent element) holding item i, as a sequence of items
ParentItems(pg, i) ==
    IF i <= pg.split THEN SubSeq(pg.items, 1, pg.split)
    ELSE SubSeq(pg.items, pg.split + 1, Len(pg.items))

\* ------------------------------------------------------------------ regex
\* (\d+)\s*/\s*(\d+) matching at token i
PairAt(text, i) ==
    /\ i + 2 <= Len(text)
    /\ text[i].k = "N"
    /\ text[i + 1].k = "S"
    /\ text[i + 2].k = "N"

\* re.findall: the non-overlapping matches, scanning left to right
RECURSIVE FindAllFrom(_, _)
FindAllFrom(text, i) ==
    IF i > Len(text) THEN << >>
    ELSE IF PairAt(text, i)
         THEN << <<text[i].n, text[i + 2].n>> >> \o FindAllFrom(text, i + 3)
         ELSE FindAllFrom(text, i + 1)

FindAll(text) == FindAllFrom(text, 1)

\* index of the first digit run at or after token i (Len + 1 when none)
RECURSIVE FirstDigit(_, _)
FirstDigit(text, i) ==
    IF i > Len(text) THEN i
    ELSE IF text[i].k = "N" THEN i ELSE FirstDigit(text, i + 1)

\* the anchor phrase matched letter for letter, re.IGNORECASE left out
AnchoredAt_CaseSensitive(text, i) ==
    /\ text[i].k = "A"
    /\ PairAt(text, FirstDigit(text, i + 1))

\* the anchored pattern started at the anchor at token i, in any letter case
\* and with any whitespace between its words:
\* AKTUALNA\s+LICZBA\s+OSÓB\s+NA\s+BASENIE [^\d]* (\d+) \s*/\s* (\d+)
AnchoredAt(text, i) ==
    /\ text[i].k \in {"A", "a"}
    /\ PairAt(text, FirstDigit(text, i + 1))

RECURSIVE AnchoredSearch(_, _)
AnchoredSearch(text, i) ==
    IF i > Len(text) THEN NotFound
    ELSE IF AnchoredAt(text, i)
         THEN LET j == FirstDigit(text, i + 1)
              IN  Found(text[j].n, text[j + 2].n)
         ELSE AnchoredSearch(text, i + 1)

\* ------------------------------------------------------------- strategies
Strategy1(pg) == AnchoredSearch(PageText(pg), 1)

\* only the whole anchor phrase in capitals accepted
HasKeyword_AnchorOnly(text) == \E i \in 1..Len(text) : text[i].k = "A"

\* 'AKTUALNA' in parent_text.upper() or 'BASENIE' in parent_text.upper()
HasKeyword(text) == \E i \in 1..Len(text) : text[i].k \in {"A", "a", "K"}

RECURSIVE BoldScan(_, _)
BoldScan(pg, i) ==
    IF i > Len(pg.items) THEN NotFound
    ELSE LET elem    == pg.items[i]
             matches == FindAll(ItemText(elem))
         IN  IF /\ elem.bold
                /\ matches # << >>
                /\ HasKeyword(TextOf(ParentItems(pg, i)))
             THEN Found(matches[1][1], matches[1][2])
             ELSE BoldScan(pg, i + 1)

Strategy2(pg) == BoldScan(pg, 1)

\* the range taken without its ends
Plausible_Exclusive(max_cap) == 50 < max_cap /\ max_cap < 200

Plausible(max_cap) == 50 <= max_cap /\ max_cap <= 200

RECURSIVE FirstPlausible(_)
FirstPlausible(matches) ==
    IF matches = << >> THEN NotFound
    ELSE IF Plausible(Head(matches)[2])
         THEN Found(Head(matches)[1], Head(matches)[2])
         ELSE FirstPlausible(Tail(matches))

Strategy3(pg) == FirstPlausible(FindAll(PageText(pg)))

\* the fallback tried before the emphasized-text scan
Extract_FallbackFirst(pg) ==
    IF Strategy1(pg).found THEN Strategy1(pg)
    ELSE IF Strategy3(pg).found THEN Strategy3(pg)
    ELSE Strategy2(pg)

Extract(pg) ==
    IF Strategy1(pg).found THEN Strategy1(pg)
    ELSE IF Strategy2(pg).found THEN Strategy2(pg)
    ELSE Strategy3(pg)


\* --------------------------------------------------------------- fetching
Item(kind, c, m, bold) == [kind |-> kind, c |-> c, m |-> m, bold |-> bold]

Page(items, split) == [items |-> items, split |-> split]

NetworkError == [ok |-> FALSE, page |-> Page(<< >>, 0)]

Response(pg) == [ok |-> TRUE, page |-> pg]

\* the pages the monitored site serves in the scheduler's runs: an anchored
\* 0/0, a bold 90/80 under a keyword, a bare 0/80, and a page with no
\* plausible pair
SamplePages ==
    { Page(<< Item("A", 0, 0, FALSE), Item("P", 0, 0, FALSE) >>, 2),
      Page(<< Item("K", 0, 0, FALSE), Item("P", 90, 80, TRUE) >>, 2),
      Page(<< Item("P", 0, 80, FALSE) >>, 1),
      Page(<< Item("P", 4, 7, FALSE) >>, 1) }

Responses == { NetworkError } \cup { Response(pg) : pg \in SamplePages }

\* requests.get + raise_for_status + the strategy chain; None on any failure
fetch_pool_occupancy(resp) ==
    IF ~resp.ok THEN NotFound ELSE Extract(resp.page)

\* ---------------------------------------------------------- configuration
EnvUnset == [kind |-> "unset", v |-> 0]

EnvText == [kind |-> "text", v |-> 0]

EnvInt(v) == [kind |-> "int", v |-> v]

\* the settings of POLLING_INTERVAL_MINUTES the scheduler is run under
EnvValues == { EnvUnset, EnvInt(1), EnvInt(2) }

\* the settings the parsing is run on: unset, text that is no integer, and
\* the integers from -MaxEnvInt to MaxEnvInt
ConfigEnvValues ==
    { EnvUnset, EnvText } \cup { EnvInt(v) : v \in (0 - MaxEnvInt)..MaxEnvInt }

\* any integer accepted, zero and negatives included
ParseInterval_NoFloor(env) ==
    IF env.kind = "int" THEN env.v ELSE 5

\* int(os.getenv('POLLING_INTERVAL_MINUTES', '5')), 5 when below 1 or when
\* int() raises

ParseInterval(env) ==
    IF env.kind = "text" THEN 5
    ELSE LET parsed == IF env.kind = "unset" THEN 5 ELSE env.v
         IN  IF parsed < 1 THEN 5 ELSE parsed

\* ------------------------------------------------------------------ clock
Day == 24 * 3600

Minute == 60

TimeOfDay(t) == t % Day

POLLING_START_TIME == 6 * 3600

POLLING_END_TIME == 22 * 3600

\* the boot instants explored: a minute before the window opens, a minute
\* and half a minute before it closes, the closing instant, and half a
\* minute after it
StartTimes ==
    { POLLING_START_TIME - 60, POLLING_END_TIME - 60, POLLING_END_TIME - 30,
      POLLING_END_TIME, POLLING_END_TIME + 30 }

RecencyWindow == 4 * 60

\* ------------------------------------------------------------------ state
Threads == {"main", "job"}

VARIABLES
    clock,             \* wall clock, seconds
    boot,              \* the clock at process start
    env,               \* POLLING_INTERVAL_MINUTES in the environment
    polling_interval,  \* minutes
    nextFire,          \* next run time of the interval job
    ticks,             \* tick opportunities so far (startup and job runs)
    store,             \* the occupancy_data table, in insertion order
    pc,                \* where each thread is
    result,            \* each running tick's local: what its fetch returned
    fetches,           \* requests.get calls made by each thread's last tick
    queried,           \* whether each thread's last tick issued the recency query
    outcome,           \* how each thread's last tick ended
    lastPoll,          \* what the fetch of the job's previous run returned
    api,               \* the response a request handler is returning
    doc,               \* extraction runs: the page under extraction
    extracted          \* extraction runs: the result

vars == << clock, boot, env, polling_interval, nextFire, ticks, store, pc, result,
           fetches, queried, outcome, lastPoll, api, doc, extracted >>

tickVars == << result, fetches, queried, outcome, lastPoll >>

\* no request is being answered
NoResponse ==
    [route |-> "none", status |-> 0, success |-> FALSE, arg |-> "none",
     hours |-> 0, data |-> << >>, error |-> ""]

\* a request is answered in the step after the one that takes it, before the
\* process does anything else; nothing but the handlers touches a response
Quiet == api = NoResponse

Rest(t) == IF t = "main" THEN "serving" ELSE "idle"

Active(t) == pc[t] \in {"fetching", "query", "commit"}

Alive == pc["main"] # "crashed"

\* ----------------------------------------------------------------- store
Reading(id, ts, c, m) ==
    [id |-> id, timestamp |-> ts, current_count |-> c, max_capacity |-> m]

\* a fraction n/d, standing for the float the division yields
Ratio(n, d) == [n |-> n, d |-> d]

\* what a division by zero raises
ZeroDivisionError == [n |-> 0, d |-> 0]

\* current_count / max_capacity * 100
Quotient100(c, m) == IF m = 0 THEN ZeroDivisionError ELSE Ratio(c * 100, m)

\* the division made whatever the capacity
percentage_Unguarded(c, m) == Quotient100(c, m)

\* OccupancyData.percentage
percentage(c, m) == IF m > 0 THEN Quotient100(c, m) ELSE Ratio(0, 1)

\* the percentage in the tick's "Stored occupancy" log line
LogPercentage(c, m) == IF m > 0 THEN Quotient100(c, m) ELSE Ratio(0, 1)

\* filter(OccupancyData.timestamp >= utcnow() - timedelta(minutes=4))
Recent(now) ==
    { i \in 1..Len(store) : store[i].timestamp >= now - RecencyWindow }

\* .first() of a query with no ORDER BY: any row the filter keeps
FirstRows(now) == Recent(now)

\* the comparison with the recent reading left out
ShouldStore_Always(rows, i, res) == TRUE

\* the comparison with max_capacity left out
ShouldStore_CountOnly(rows, i, res) ==
    \/ rows = {}
    \/ store[i].current_count # res.c

\* recent is None, or a field differs
ShouldStore(rows, i, res) ==
    \/ rows = {}
    \/ store[i].current_count # res.c
    \/ store[i].max_capacity # res.m

\* ------------------------------------------------------------------ gate
\* current_time < POLLING_START_TIME or current_time > POLLING_END_TIME
OutsidePollingHours(t) ==
    TimeOfDay(t) < POLLING_START_TIME \/ TimeOfDay(t) > POLLING_END_TIME

\* the bounds of the window left out of it
StartupInWindow_Exclusive(t) ==
    TimeOfDay(t) > POLLING_START_TIME /\ TimeOfDay(t) < POLLING_END_TIME

\* current_time >= POLLING_START_TIME and current_time <= POLLING_END_TIME
StartupInWindow(t) ==
    TimeOfDay(t) >= POLLING_START_TIME /\ TimeOfDay(t) <= POLLING_END_TIME

Init ==
    /\ boot \in StartTimes
    /\ clock = boot
    /\ env \in EnvValues
    /\ polling_interval = 0
    /\ nextFire = 0
    /\ ticks = 0
    /\ store = << >>
    /\ pc = [t \in Threads |-> IF t = "main" THEN "config" ELSE "idle"]
    /\ result = [t \in Threads |-> NotFound]
    /\ fetches = [t \in Threads |-> 0]
    /\ queried = [t \in Threads |-> FALSE]
    /\ outcome = [t \in Threads |-> "none"]
    /\ lastPoll = NotFound
    /\ api = NoResponse
    /\ doc = Page(<< >>, 0)
    /\ extracted = NotFound

\* the interval is read from the environment and the job is added to the
\* scheduler, its first run one interval from now
Configure ==
    /\ pc["main"] = "config"
    /\ polling_interval' = ParseInterval(env)
    /\ nextFire' = clock + ParseInterval(env) * Minute
    /\ pc' = [pc EXCEPT !["main"] = "boot"]
    /\ UNCHANGED << clock, boot, env, ticks, store, tickVars, api, doc, extracted >>

\* fetch_and_store_occupancy, up to the call of fetch_pool_occupancy
BeginTick(t) ==
    /\ queried' = [queried EXCEPT ![t] = FALSE]
    /\ IF OutsidePollingHours(clock)
       THEN /\ pc' = [pc EXCEPT ![t] = Rest(t)]
            /\ fetches' = [fetches EXCEPT ![t] = 0]
            /\ outcome' = [outcome EXCEPT ![t] = "skipped"]
            /\ lastPoll' = IF t = "job" THEN NotFound ELSE lastPoll
       ELSE /\ pc' = [pc EXCEPT ![t] = "fetching"]
            /\ fetches' = [fetches EXCEPT ![t] = 1]
            /\ outcome' = [outcome EXCEPT ![t] = "running"]
            /\ UNCHANGED lastPoll
    /\ UNCHANGED result

\* the initial fetch at import time
Startup ==
    /\ pc["main"] = "boot"
    /\ ticks' = ticks + 1
    /\ IF StartupInWindow(clock)
       THEN BeginTick("main")
       ELSE /\ pc' = [pc EXCEPT !["main"] = "serving"]
            /\ outcome' = [outcome EXCEPT !["main"] = "skipped"]
            /\ UNCHANGED << result, fetches, queried, lastPoll >>
    /\ UNCHANGED << clock, boot, env, polling_interval, nextFire, store, api, doc, extracted >>

\* the interval trigger comes due and the job's one instance is free
FireRun ==
    /\ Alive
    /\ Quiet
    /\ pc["main"] \notin {"config", "boot"}
    /\ ticks < MaxTicks
    /\ clock >= nextFire
    /\ pc["job"] = "idle"
    /\ nextFire' = nextFire + polling_interval * Minute
    /\ ticks' = ticks + 1
    /\ BeginTick("job")
    /\ UNCHANGED << clock, boot, env, polling_interval, store, api, doc, extracted >>

\* the trigger comes due while the previous run is still going: the run is
\* skipped (one instance of a job at a time)
FireSkip ==
    /\ Alive
    /\ Quiet
    /\ pc["main"] \notin {"config", "boot"}
    /\ ticks < MaxTicks
    /\ clock >= nextFire
    /\ pc["job"] # "idle"
    /\ nextFire' = nextFire + polling_interval * Minute
    /\ UNCHANGED << clock, boot, env, polling_interval, ticks, store, pc, tickVars,
                    api, doc, extracted >>

\* how a tick of thread t ends
EndTick(t, how) ==
    /\ pc' = [pc EXCEPT ![t] = Rest(t)]
    /\ result' = [result EXCEPT ![t] = NotFound]
    /\ outcome' = [outcome EXCEPT ![t] = how]
    /\ lastPoll' = IF t = "job" THEN result[t] ELSE lastPoll

\* "if result:" holds: the tick goes on to the database
FetchFound(t, res) ==
    /\ pc' = [pc EXCEPT ![t] = "query"]
    /\ result' = [result EXCEPT ![t] = res]
    /\ UNCHANGED << store, queried, outcome, lastPoll >>

\* the failed tick falling through to the recency query
FetchFailed_Queries(t, how) ==
    /\ EndTick(t, how)
    /\ queried' = [queried EXCEPT ![t] = TRUE]
    /\ UNCHANGED store

\* "else: logger.warning(...)": the tick ends
FetchFailed(t, how) ==
    /\ EndTick(t, how)
    /\ UNCHANGED << store, queried >>

\* fetch_pool_occupancy returns
FetchDone(t, resp) ==
    /\ pc[t] = "fetching"
    /\ Quiet
    /\ IF fetch_pool_occupancy(resp).found
       THEN FetchFound(t, fetch_pool_occupancy(resp))
       ELSE FetchFailed(t, IF resp.ok THEN "not_found" ELSE "network_error")
    /\ UNCHANGED << clock, boot, env, polling_interval, nextFire, ticks, fetches,
                    api, doc, extracted >>

\* the recency query and the dedup decision
Query(t) ==
    /\ pc[t] = "query"
    /\ Quiet
    /\ queried' = [queried EXCEPT ![t] = TRUE]
    /\ LET rows == FirstRows(clock)
       IN  \E i \in (IF rows = {} THEN {0} ELSE rows) :
              IF ShouldStore(rows, i, result[t])
              THEN /\ pc' = [pc EXCEPT ![t] = "commit"]
                   /\ UNCHANGED << result, outcome, lastPoll >>
              ELSE EndTick(t, "duplicate")
    /\ UNCHANGED << clock, boot, env, polling_interval, nextFire, ticks, store,
                    fetches, api, doc, extracted >>

\* the count clamped to the capacity before it is stored
Commit_Clamped(t) ==
    /\ pc[t] = "commit"
    /\ Quiet
    /\ store' = Append(store, Reading(Len(store) + 1, clock,
                                      IF result[t].c > result[t].m
                                      THEN result[t].m ELSE result[t].c,
                                      result[t].m))
    /\ EndTick(t, "stored")
    /\ UNCHANGED << clock, boot, env, polling_interval, nextFire, ticks, fetches,
                    queried, api, doc, extracted >>

\* the new reading written over the table
Commit_Overwrite(t) ==
    /\ pc[t] = "commit"
    /\ Quiet
    /\ store' = << Reading(1, clock, result[t].c, result[t].m) >>
    /\ EndTick(t, "stored")
    /\ UNCHANGED << clock, boot, env, polling_interval, nextFire, ticks, fetches,
                    queried, api, doc, extracted >>

\* db.session.add + db.session.commit
Commit(t) ==
    /\ pc[t] = "commit"
    /\ Quiet
    /\ store' = Append(store, Reading(Len(store) + 1, clock, result[t].c, result[t].m))
    /\ IF LogPercentage(result[t].c, result[t].m) = ZeroDivisionError
       THEN /\ pc' = [pc EXCEPT ![t] = IF t = "main" THEN "crashed" ELSE "idle"]
            /\ result' = [result EXCEPT ![t] = NotFound]
            /\ outcome' = [outcome EXCEPT ![t] = "error"]
            /\ lastPoll' = IF t = "job" THEN result[t] ELSE lastPoll
       ELSE EndTick(t, "stored")
    /\ UNCHANGED << clock, boot, env, polling_interval, nextFire, ticks, fetches,
                    queried, api, doc, extracted >>

\* the query or the commit raises: nothing in the tick catches it.  In the
\* job the executor logs it and the run ends; at import time it leaves the
\* module and the process.
PersistenceError(t) ==
    /\ pc[t] \in {"query", "commit"}
    /\ Quiet
    /\ queried' = [queried EXCEPT ![t] = TRUE]
    /\ pc' = [pc EXCEPT ![t] = IF t = "main" THEN "crashed" ELSE "idle"]
    /\ result' = [result EXCEPT ![t] = NotFound]
    /\ outcome' = [outcome EXCEPT ![t] = "error"]
    /\ lastPoll' = IF t = "job" THEN result[t] ELSE lastPoll
    /\ UNCHANGED << clock, boot, env, polling_interval, nextFire, ticks, store,
                    fetches, api, doc, extracted >>

\* a minute passes; a due run is started before the clock moves on, and the
\* database calls take less than a minute
Advance ==
    /\ pc["main"] \notin {"config", "boot"}
    /\ Quiet
    /\ clock - boot < MaxElapsedMinutes * Minute
    /\ Alive => clock < nextFire
    /\ \A t \in Threads : pc[t] \notin {"query", "commit"}
    /\ clock' = clock + Minute
    /\ UNCHANGED << boot, env, polling_interval, nextFire, ticks, store, pc, tickVars,
                    api, doc, extracted >>

\* ------------------------------------------------------------- the API
\* timestamp.isoformat()
isoformat(ts) == [iso |-> ts]

\* OccupancyData.to_dict
to_dict(r) ==
    [id |-> r.id, timestamp |-> isoformat(r.timestamp),
     current_count |-> r.current_count, max_capacity |-> r.max_capacity,
     percentage |-> percentage(r.current_count, r.max_capacity)]

\* to_dict raises on row i
DictRaises(i) ==
    percentage(store[i].current_count, store[i].max_capacity) = ZeroDivisionError

\* jsonify({'success': True, 'data': ...})
Success(route, arg, hours, data) ==
    [route |-> route, status |-> 200, success |-> TRUE, arg |-> arg,
     hours |-> hours, data |-> data, error |-> ""]

\* jsonify({'success': False, 'error': ...}), status
Failure(route, arg, status, error) ==
    [route |-> route, status |-> status, success |-> FALSE, arg |-> arg,
     hours |-> 0, data |-> << >>, error |-> error]

\* the hours parameter of a request: absent, text int() rejects, an integer
HoursArgs == {"unset", "text", "0"}

\* int() raises ValueError on the parameter
HoursRejected(arg) == arg = "text"

\* int(request.args.get('hours', 24)) of a parameter int() accepts
ParseHours(arg) == IF arg = "unset" THEN 24 ELSE 0

\* the filter with the instant 'since' itself left out
DataRows_Strict(since) ==
    { i \in 1..Len(store) : store[i].timestamp > since }

\* filter(OccupancyData.timestamp >= since)
DataRows(since) ==
    { i \in 1..Len(store) : store[i].timestamp >= since }

\* order_by(OccupancyData.timestamp.asc()).all(): the rows of S in every
\* order that is ascending by timestamp
RECURSIVE Ascending(_)
Ascending(S) ==
    IF S = {} THEN { << >> }
    ELSE UNION { { << i >> \o rest : rest \in Ascending(S \ {i}) } :
                 i \in { x \in S : \A y \in S :
                                     store[x].timestamp <= store[y].timestamp } }

\* the oldest row taken in place of the newest
LatestRows_Oldest ==
    { i \in 1..Len(store) :
         \A j \in 1..Len(store) : store[i].timestamp <= store[j].timestamp }

\* order_by(OccupancyData.timestamp.desc()).first(): a row no other row is
\* newer than
LatestRows ==
    { i \in 1..Len(store) :
         \A j \in 1..Len(store) : store[j].timestamp <= store[i].timestamp }

\* the web server answers requests once the module is imported
Serving == pc["main"] = "serving" /\ Quiet

\* GET /api/data?hours=arg
get_data(arg) ==
    /\ Serving
    /\ LET hours == ParseHours(arg)
           rows == DataRows(clock - hours * 3600)
       IN  IF HoursRejected(arg) \/ \E i \in rows : DictRaises(i)
           THEN api' = Failure("data", arg, 500,
                               IF HoursRejected(arg) THEN "invalid literal"
                               ELSE "division by zero")
           ELSE \E seq \in Ascending(rows) :
                   api' = Success("data", arg, hours,
                                  [k \in 1..Len(seq) |-> to_dict(store[seq[k]])])
    /\ UNCHANGED << clock, boot, env, polling_interval, nextFire, ticks, store,
                    pc, tickVars, doc, extracted >>

\* GET /api/latest
get_latest ==
    /\ Serving
    /\ IF LatestRows = {}
       THEN api' = Failure("latest", "none", 404, "No data available")
       ELSE \E i \in LatestRows :
               api' = IF DictRaises(i)
                      THEN Failure("latest", "none", 500, "division by zero")
                      ELSE Success("latest", "none", 0, << to_dict(store[i]) >>)
    /\ UNCHANGED << clock, boot, env, polling_interval, nextFire, ticks, store,
                    pc, tickVars, doc, extracted >>

\* the query of a handler raises: "except Exception" answers with status 500
HandlerError(route) ==
    /\ Serving
    /\ api' = Failure(route, "none", 500, "database error")
    /\ UNCHANGED << clock, boot, env, polling_interval, nextFire, ticks, store,
                    pc, tickVars, doc, extracted >>

\* GET /health: {'status': 'healthy'}, 200; success stands for 'healthy'
health ==
    /\ Serving
    /\ api' = [route |-> "health", status |-> 200, success |-> TRUE,
               arg |-> "none", hours |-> 0, data |-> << >>, error |-> ""]
    /\ UNCHANGED << clock, boot, env, polling_interval, nextFire, ticks, store,
                    pc, tickVars, doc, extracted >>

\* the response leaves the process
Respond ==
    /\ ~Quiet
    /\ api' = NoResponse
    /\ UNCHANGED << clock, boot, env, polling_interval, nextFire, ticks, store,
                    pc, tickVars, doc, extracted >>

Next ==
    \/ Configure
    \/ Startup
    \/ FireRun
    \/ FireSkip
    \/ \E t \in Threads, resp \in Responses : FetchDone(t, resp)
    \/ \E t \in Threads : Query(t)
    \/ \E t \in Threads : Commit(t)
    \/ \E t \in Threads : PersistenceError(t)
    \/ Advance
    \/ \E arg \in HoursArgs : get_data(arg)
    \/ get_latest
    \/ \E route \in {"data", "latest"} : HandlerError(route)
    \/ health
    \/ Respond

Spec == Init /\ [][Next]_vars

\* ----------------------------------------------------- configuration runs
\* process starts under every setting of the interval
ConfigInit ==
    /\ boot \in StartTimes
    /\ clock = boot
    /\ env \in ConfigEnvValues
    /\ polling_interval = 0
    /\ nextFire = 0
    /\ ticks = 0
    /\ store = << >>
    /\ pc = [t \in Threads |-> IF t = "main" THEN "config" ELSE "idle"]
    /\ result = [t \in Threads |-> NotFound]
    /\ fetches = [t \in Threads |-> 0]
    /\ queried = [t \in Threads |-> FALSE]
    /\ outcome = [t \in Threads |-> "none"]
    /\ lastPoll = NotFound
    /\ api = NoResponse
    /\ doc = Page(<< >>, 0)
    /\ extracted = NotFound

ConfigNext == Configure

ConfigSpec == ConfigInit /\ [][ConfigNext]_vars


\* ------------------------------------------------------- extraction runs
\* the pages of n items, split into two containers anywhere
PagesOfLen(n) == { Page(items, k) : items \in [1..n -> ItemKinds], k \in 0..n }

ExtractInit ==
    /\ \E n \in 0..MaxItems : doc \in PagesOfLen(n)
    /\ extracted = NotFound
    /\ boot = 0
    /\ clock = 0
    /\ env = EnvUnset
    /\ polling_interval = 5
    /\ nextFire = 0
    /\ ticks = 0
    /\ store = << >>
    /\ pc = [t \in Threads |-> "extract"]
    /\ result = [t \in Threads |-> NotFound]
    /\ fetches = [t \in Threads |-> 0]
    /\ queried = [t \in Threads |-> FALSE]
    /\ outcome = [t \in Threads |-> "none"]
    /\ lastPoll = NotFound
    /\ api = NoResponse

\* the strategy chain run on the page of a successful response
ExtractStep ==
    /\ pc["main"] = "extract"
    /\ extracted' = fetch_pool_occupancy(Response(doc))
    /\ pc' = [t \in Threads |-> "extracted"]
    /\ UNCHANGED << clock, boot, env, polling_interval, nextFire, ticks, store,
                    tickVars, api, doc >>

ExtractNext == ExtractStep

ExtractSpec == ExtractInit /\ [][ExtractNext]_vars

Extracted == pc["main"] = "extracted"

\* (\d+)\s*/\s*(\d+) occurs nowhere in the page text
NoPairAnywhere(pg) == \A i \in 1..Len(PageText(pg)) : ~PairAt(PageText(pg), i)

\* C9: the result is that of the first strategy that succeeds, in the order
\* anchored regex, emphasized-text scan, heuristic fallback; it is NotFound
\* exactly when all three fail, and always when the page holds no
\* digits/digits pattern.
C9_StrategyChain ==
    Extracted =>
        /\ Strategy1(doc).found => extracted = Strategy1(doc)
        /\ (~Strategy1(doc).found /\ Strategy2(doc).found) => extracted = Strategy2(doc)
        /\ (~Strategy1(doc).found /\ ~Strategy2(doc).found) => extracted = Strategy3(doc)
        /\ ~extracted.found <=>
              (~Strategy1(doc).found /\ ~Strategy2(doc).found /\ ~Strategy3(doc).found)
        /\ NoPairAnywhere(doc) => ~extracted.found

\* a page on which all three strategies succeed, the later two with a pair
\* other than the first one's, and the first one's pair is the result
C9_Witness ==
    /\ Extracted
    /\ Strategy1(doc).found /\ Strategy2(doc).found /\ Strategy3(doc).found
    /\ Strategy1(doc) # Strategy2(doc)
    /\ Strategy1(doc) # Strategy3(doc)
    /\ extracted = Strategy1(doc)

Latest(now) ==
    { i \in Recent(now) : \A j \in Recent(now) : store[j].timestamp <= store[i].timestamp }

SamePair(i, res) ==
    store[i].current_count = res.c /\ store[i].max_capacity = res.m

\* thread t's tick takes its dedup decision in this step
Decides(t) == pc[t] = "query" /\ pc'[t] # "query" /\ outcome'[t] # "error"

\* thread t's tick commits its reading in this step
Stores(t) == pc[t] = "commit" /\ outcome'[t] = "stored"

AppendsResult(t) ==
    store' = Append(store, Reading(Len(store) + 1, clock, result[t].c, result[t].m))

\* C1: a tick that found (c, m) appends nothing when the most recent reading
\* of the last 4 minutes holds (c, m), whatever the older readings of the
\* window hold.
C1_DuplicateDiscarded ==
    [][\A t \in Threads :
          (Decides(t) /\ Latest(clock) # {}
             /\ \A i \in Latest(clock) : SamePair(i, result[t]))
          => (outcome'[t] = "duplicate" /\ store' = store)]_vars

\* C2: a tick that found (c, m) appends one reading (c, m) stamped with the
\* current time when the most recent reading of the last 4 minutes differs
\* from (c, m), whatever the older readings of the window hold.
C2_ChangeStored ==
    [][\A t \in Threads :
          /\ (Decides(t) /\ Latest(clock) # {}
                /\ \A i \in Latest(clock) : ~SamePair(i, result[t]))
             => pc'[t] = "commit"
          /\ Stores(t) => AppendsResult(t)]_vars

\* the store holds one reading newer than all others by 4 minutes or more
SinglePrior(i) ==
    /\ i \in 1..Len(store)
    /\ \A j \in 1..Len(store) :
          j # i => store[j].timestamp <= store[i].timestamp - RecencyWindow

\* C3: with a single prior reading (c, m) stored at t0, a tick at t0 + d that
\* found (c', m') leaves the store unchanged when d < 4 min and the pairs are
\* equal, appends one reading when d < 4 min and the pairs differ in either
\* field, and appends one reading when d > 4 min even for equal pairs.
C3_SinglePriorReading ==
    [][\A t \in Threads :
          /\ \A i \in 1..Len(store) :
                (Decides(t) /\ SinglePrior(i)) =>
                   LET d == clock - store[i].timestamp
                   IN  /\ (0 < d /\ d < 4 * 60 /\ SamePair(i, result[t]))
                          => (outcome'[t] = "duplicate" /\ store' = store)
                       /\ (0 < d /\ d < 4 * 60 /\ ~SamePair(i, result[t]))
                          => pc'[t] = "commit"
                       /\ d > 4 * 60 => pc'[t] = "commit"
          /\ Stores(t) => AppendsResult(t)]_vars

\* the same pair stored twice, more than 4 minutes apart, and nothing else
C3_Witness ==
    /\ Len(store) = 2
    /\ store[2].timestamp - store[1].timestamp > 4 * 60
    /\ store[2].current_count = store[1].current_count
    /\ store[2].max_capacity = store[1].max_capacity
    /\ outcome["job"] = "stored"

\* ------------------------------------------------------------ the time gate
\* the local time of day read in hours and minutes, as minutes since midnight
HourMinute(t) == TimeOfDay(t) \div 60

BeginsFetch(t) == pc[t] # "fetching" /\ pc'[t] = "fetching"

\* C4: a tick (startup or interval) fetches exactly when the local time, read
\* in hours and minutes, is from 06:00 to 22:00, at any second of the minute;
\* a tick that does not fetch does not touch the store.
C4_TimeGate ==
    [][ticks' # ticks =>
          /\ (\E t \in Threads : BeginsFetch(t))
                <=> (6 * 60 <= HourMinute(clock) /\ HourMinute(clock) <= 22 * 60)
          /\ store' = store]_vars

\* C5: at most one execution of the ingestion tick is active, the startup
\* tick of the main thread and the job's runs counted together.
C5_NoOverlappingTicks == ~(Active("main") /\ Active("job"))

\* --------------------------------------------------------------- failures
FetchFailure == {"network_error", "not_found"}

\* C6: a tick whose fetch ends in NotFound or a network failure leaves the
\* store as it was and does not issue the recency query.
C6_FailedFetchNoStateChange ==
    [][\A t \in Threads :
          (pc[t] = "fetching" /\ outcome'[t] \in FetchFailure)
          => (store' = store /\ ~queried'[t] /\ pc'[t] = Rest(t))]_vars

\* a job run has failed to fetch over a store that holds a reading
C6_Witness ==
    /\ outcome["job"] \in FetchFailure
    /\ ~queried["job"]
    /\ store # << >>

\* C7: a persistence failure in any tick, the startup tick included, is not
\* fatal: the process keeps running and the scheduler is not stopped.
C7_PersistenceFailureNotFatal ==
    \A t \in Threads : outcome[t] = "error" => Alive

\* C8: after a tick that ended in a network failure or NotFound the scheduler
\* keeps ticking, and the failed tick made one fetch attempt only.
C8_SchedulerSurvivesFailedFetch ==
    \A t \in Threads :
        outcome[t] \in FetchFailure => (Alive /\ fetches[t] = 1)


\* ------------------------------------------------------ the anchored regex
\* in the page text an anchor phrase at token i is followed by a run of
\* non-digits and then by digits / digits starting at token j
AnchorThenPair(text, i, j) ==
    /\ i \in 1..Len(text)
    /\ text[i].k \in {"A", "a"}
    /\ j > i
    /\ \A k \in (i + 1)..(j - 1) : text[k].k # "N"
    /\ PairAt(text, j)

\* C11: when the page text holds the anchor phrase (any letter case, any
\* whitespace between its words) followed by non-digits and then c / m,
\* strategy 1, and with it the extraction, yields Found(c, m), the two whole
\* digit groups after the first such anchor occurrence.
C11_AnchoredRegex ==
    Extracted =>
        LET text == PageText(doc)
        IN  \A i \in 1..Len(text), j \in 1..Len(text) :
               (/\ AnchorThenPair(text, i, j)
                /\ \A i0 \in 1..(i - 1), j0 \in 1..Len(text) :
                      ~AnchorThenPair(text, i0, j0))
               => /\ Strategy1(doc) = Found(text[j].n, text[j + 2].n)
                  /\ extracted = Found(text[j].n, text[j + 2].n)

\* a small-letter anchor, a keyword run, then 4/7: only strategy 1 can
\* return a capacity of 7
C11_Witness ==
    /\ Extracted
    /\ Len(doc.items) = 3
    /\ doc.items[1].kind = "a"
    /\ doc.items[2].kind = "K"
    /\ doc.items[3] = Item("P", 4, 7, FALSE)
    /\ extracted = Found(4, 7)

\* ------------------------------------------------- the emphasized-text scan
\* item i is a bold element holding a pair
BoldPair(pg, i) == pg.items[i].bold /\ FindAll(ItemText(pg.items[i])) # << >>

\* the bold pair i sits in a container whose text holds a keyword
Accepted(pg, i) ==
    /\ BoldPair(pg, i)
    /\ \E k \in 1..Len(pg.items) :
          /\ (k <= pg.split) = (i <= pg.split)
          /\ pg.items[k].kind \in {"A", "a", "K"}

\* C12: strategy 2 returns the pair of the first bold element, in document
\* order, whose immediate parent's text holds the anchor phrase or a keyword;
\* a bold pair whose parent text holds none is never returned by it; when
\* strategy 1 fails that pair is the result of the extraction.
C12_EmphasizedScan ==
    Extracted =>
        LET n == Len(doc.items)
        IN  /\ (\E i \in 1..n : Accepted(doc, i)) =>
                  \E i \in 1..n :
                     /\ Accepted(doc, i)
                     /\ \A i0 \in 1..(i - 1) : ~Accepted(doc, i0)
                     /\ Strategy2(doc) = Found(doc.items[i].c, doc.items[i].m)
                     /\ ~Strategy1(doc).found => extracted = Strategy2(doc)
            /\ (~\E i \in 1..n : Accepted(doc, i)) => ~Strategy2(doc).found

\* no anchor phrase, a bold 3/49 beside a keyword run in the same container,
\* after a bold 4/7 alone in the other container: 3/49 is the result
C12_Witness ==
    /\ Extracted
    /\ doc = Page(<< Item("P", 4, 7, TRUE), Item("K", 0, 0, FALSE),
                     Item("P", 3, 49, TRUE) >>, 1)
    /\ ~Strategy1(doc).found
    /\ extracted = Found(3, 49)


\* ------------------------------------------------------------ the startup
\* the instants from 06:00:00 to 22:00:00, both included
InsideWindow(t) ==
    /\ 6 * 3600 <= t % (24 * 3600)
    /\ t % (24 * 3600) <= 22 * 3600

\* the step that takes the process out of its start
StartupStep == pc["main"] = "boot" /\ pc'["main"] # "boot"

\* C13: at process start inside the window the main thread begins one tick
\* at once (its fetch, then the same decision as any tick), before any
\* interval run and without touching the schedule; outside the window it
\* makes no fetch and leaves the store alone; it never begins a second tick.
C13_StartupTick ==
    [][/\ StartupStep =>
            /\ clock = boot
            /\ outcome["job"] = "none"
            /\ nextFire' = nextFire
            /\ store' = store
            /\ IF InsideWindow(clock)
               THEN pc'["main"] = "fetching" /\ fetches'["main"] = 1
               ELSE pc'["main"] = "serving" /\ fetches'["main"] = 0
       /\ pc["main"] \in {"serving", "crashed"} =>
            /\ pc'["main"] = pc["main"]
            /\ fetches'["main"] = fetches["main"]
       /\ (Len(store') > Len(store) /\ pc["main"] = "commit") =>
            InsideWindow(boot)]_vars

\* the process started on the closing instant of the window and its startup
\* tick has stored a reading before any interval run
C13_Witness ==
    /\ boot = POLLING_END_TIME
    /\ clock = boot
    /\ pc["main"] = "serving"
    /\ outcome["main"] = "stored"
    /\ outcome["job"] = "none"
    /\ Len(store) = 1


\* ------------------------------------------------ the interval configured
\* the main thread is past the parsing of the interval
Configured == pc["main"] # "config"

\* C14: the interval in effect is the configured value when that is an
\* integer of at least 1 and 5 otherwise (unset, text that is no integer,
\* zero, a negative); parsing never ends the process, the job is scheduled
\* one interval after the start, and the interval is an integer >= 1.
C14_IntervalConfiguration ==
    /\ pc["main"] # "crashed"
    /\ Configured =>
          /\ polling_interval =
                (IF env.kind = "int" /\ env.v >= 1 THEN env.v ELSE 5)
          /\ polling_interval \in Nat
          /\ polling_interval >= 1
          /\ nextFire = boot + polling_interval * 60

\* a configured interval of 0 has been replaced by 5 and the job scheduled
C14_Witness ==
    /\ Configured
    /\ env = EnvInt(0)
    /\ polling_interval = 5
    /\ nextFire = boot + 300


\* -------------------------------------------------------------- requests
\* a handler of the given route answers in this step
Answers(route) == api' # api /\ api'.route = route

\* the response entry for row i of the store
Entry(i) ==
    [id |-> store[i].id, timestamp |-> [iso |-> store[i].timestamp],
     current_count |-> store[i].current_count,
     max_capacity |-> store[i].max_capacity,
     percentage |-> IF store[i].max_capacity > 0
                    THEN [n |-> store[i].current_count * 100,
                          d |-> store[i].max_capacity]
                    ELSE [n |-> 0, d |-> 1]]

\* C15: GET /api/latest always answers and the process goes on serving; when
\* its query does not fail, on an empty store the answer is the failure
\* 'No data available' with status 404, and on a non-empty store it is a
\* success holding a stored reading that no stored reading is newer than.
C15_LatestEndpoint ==
    [][Answers("latest") =>
          /\ pc'["main"] = "serving"
          /\ api'.status \in {200, 404, 500}
          /\ api'.status # 500 =>
                IF store = << >>
                THEN /\ api'.status = 404
                     /\ ~api'.success
                     /\ api'.error = "No data available"
                     /\ api'.data = << >>
                ELSE /\ api'.status = 200
                     /\ api'.success
                     /\ \E i \in 1..Len(store) :
                           /\ api'.data = << Entry(i) >>
                           /\ \A j \in 1..Len(store) :
                                 store[j].timestamp <= store[i].timestamp]_vars

\* the latest reading of a store of two readings of different minutes is
\* being returned
C15_Witness ==
    /\ api.route = "latest"
    /\ api.status = 200
    /\ Len(store) = 2
    /\ store[1].timestamp < store[2].timestamp
    /\ api.data[1].id = 2

\* C16: a successful GET /api/data?hours=h, h being 24 when the parameter is
\* absent, returns each stored reading with timestamp >= now - h hours once,
\* no other reading, in ascending order of timestamp.
C16_DataEndpoint ==
    [][(Answers("data") /\ api'.status = 200) =>
          LET h == api'.hours
              data == api'.data
          IN  /\ api'.success
              /\ api'.arg = "unset" => h = 24
              /\ api'.arg = "0" => h = 0
              /\ \A i \in 1..Len(store) :
                    IF store[i].timestamp >= clock - h * 3600
                    THEN Cardinality({ k \in 1..Len(data) : data[k] = Entry(i) }) = 1
                    ELSE \A k \in 1..Len(data) : data[k].id # store[i].id
              /\ \A k \in 1..Len(data) :
                    \E i \in 1..Len(store) : data[k] = Entry(i)
              /\ \A k \in 1..(Len(data) - 1) :
                    data[k].timestamp.iso <= data[k + 1].timestamp.iso]_vars

\* hours=0 is being answered with the one reading of this minute out of a
\* store that also holds an older one
C16_Witness ==
    /\ api.route = "data"
    /\ api.status = 200
    /\ api.arg = "0"
    /\ Len(store) = 2
    /\ store[1].timestamp < clock
    /\ store[2].timestamp = clock
    /\ Len(api.data) = 1
    /\ api.data[1].id = 2

\* ------------------------------------------------------ append-only store
\* C17: every reading stored earlier stays in the store with its id,
\* timestamp, count and capacity; the store changes only when a tick commits,
\* and then by one reading appended; the request handlers leave it unchanged.
C17_AppendOnly ==
    [][/\ Len(store') >= Len(store)
       /\ \A i \in 1..Len(store) : store'[i] = store[i]
       /\ store' # store =>
             /\ Len(store') = Len(store) + 1
             /\ \E t \in Threads : pc[t] = "commit" /\ pc'[t] = Rest(t)
       /\ api' # api => store' = store]_vars

\* three ticks have appended a reading each, all three are in the store in
\* the order of their ids, and a request is being answered
C17_Witness ==
    /\ Len(store) = 3
    /\ store[1].id = 1
    /\ store[2].id = 2
    /\ store[3].id = 3
    /\ api.route = "health"


\* ------------------------------------------------------------ percentage
\* the fractions p and q are the same number
SameNumber(p, q) == p.d # 0 /\ q.d # 0 /\ p.n * q.d = q.n * p.d

\* c / m * 100 when m > 0, and 0 when m = 0
PercentOf(c, m) == IF m = 0 THEN [n |-> 0, d |-> 1] ELSE [n |-> c * 100, d |-> m]

\* C18: the percentage of a reading is c / m * 100 when m > 0 and 0 when
\* m = 0, (0, 0) included, and is computed without a division error, both by
\* the model property that the responses carry and by the log line of the
\* tick that stores the reading.
C18_PercentageTotal ==
    [][/\ \A t \in Threads :
             pc[t] = "commit" =>
                /\ (pc'[t] # "commit" /\ store' # store) => outcome'[t] = "stored"
                /\ LogPercentage(result[t].c, result[t].m) # ZeroDivisionError
                /\ SameNumber(LogPercentage(result[t].c, result[t].m),
                              PercentOf(result[t].c, result[t].m))
       /\ \A i \in 1..Len(store) :
             SameNumber(percentage(store[i].current_count, store[i].max_capacity),
                        PercentOf(store[i].current_count, store[i].max_capacity))
       /\ api' # api =>
             /\ api'.error # "division by zero"
             /\ \A k \in 1..Len(api'.data) :
                   SameNumber(api'.data[k].percentage,
                              PercentOf(api'.data[k].current_count,
                                        api'.data[k].max_capacity))]_vars

\* the reading (0, 0), stored by a tick, is being returned with percentage 0
C18_Witness ==
    /\ api.route = "latest"
    /\ api.status = 200
    /\ api.data[1].current_count = 0
    /\ api.data[1].max_capacity = 0
    /\ api.data[1].percentage = [n |-> 0, d |-> 1]
    /\ \E t \in Threads : outcome[t] = "stored"


\* ------------------------------------------------------ consecutive polls
\* the job's run decides on the pair that its previous run fetched too
UnchangedPoll ==
    Decides("job") /\ lastPoll.found /\ result["job"] = lastPoll

ExtractedPairs == { Extract(pg) : pg \in SamplePages } \ { NotFound }

\* C20: a tick carries the pair its extraction returned unchanged to the
\* commit, and the reading it stores holds exactly that pair, two
\* non-negative integers; a pair with count above capacity is stored like
\* any other: always when no reading of the last 4 minutes exists, otherwise
\* only against a reading that differs from it, and dropped only against a
\* reading equal to it.
C20_StoredAsExtracted ==
    [][/\ \A t \in Threads :
            /\ (pc[t] = "fetching" /\ pc'[t] = "query") =>
                  result'[t] \in ExtractedPairs
            /\ (pc[t] \in {"query", "commit"} /\ pc'[t] \in {"query", "commit"}) =>
                  result'[t] = result[t]
            /\ Stores(t) =>
                  /\ AppendsResult(t)
                  /\ store'[Len(store')].current_count = result[t].c
                  /\ store'[Len(store')].max_capacity = result[t].m
                  /\ result[t].c \in Nat
                  /\ result[t].m \in Nat
            /\ (Decides(t) /\ Recent(clock) = {}) => pc'[t] = "commit"
            /\ (Decides(t) /\ pc'[t] = "commit" /\ Recent(clock) # {}) =>
                  \E i \in Recent(clock) : ~SamePair(i, result[t])
            /\ (Decides(t) /\ pc'[t] # "commit") =>
                  \E i \in Recent(clock) : SamePair(i, result[t])
       /\ \A i \in 1..Len(store) :
            Found(store[i].current_count, store[i].max_capacity) \in ExtractedPairs]_vars

\* the pair (90, 80), count above capacity, was stored as it is, and a later
\* tick that extracted it again was dropped as a duplicate
C20_Witness ==
    /\ Len(store) = 1
    /\ store[1].current_count = 90
    /\ store[1].max_capacity = 80
    /\ \E t \in Threads : outcome[t] = "duplicate"

====
